---- MODULE Spec2Model ----
(***************************************************************************)
(* The WorkSafe NZ assistant: the vector-store builder                     *)
(* (src/src/build_vectorstore.py), the RAG-chain script                    *)
(* (src/src/rag_chain.py), the console chat (src/src/chat_interface.py)    *)
(* and the Streamlit web app (src/app.py), as one state machine.  One      *)
(* program runs at a time; the index directory on disk outlives the        *)
(* programs and carries what a build wrote to the programs that query it.  *)
(*                                                                         *)
(* A text is a sequence of one-character strings.  The library calls the   *)
(* programs make (PDF loader, text splitter, embedding model, FAISS, the   *)
(* hosted LLM) are modelled at their call sites: what they return on       *)
(* success, and that they may raise.                                       *)
(***************************************************************************)
EXTENDS Integers, Sequences, FiniteSets, TLC

VARIABLES
    apiKey,        \* os.getenv("ANTHROPIC_API_KEY"): "unset", "empty" or "set"
    pdf,           \* the pages PyPDFLoader extracts from the file at PDF_PATH
    disk,          \* data/hswa_vectorstore: the index files and the sidecar
    entry,         \* the program that runs (or ran last)
    pc,            \* its position
    out,           \* what it has shown the user (stdout, or the page of this run)
    exc,           \* the exception in flight, or the one that ended the try block
    status,        \* how the process ended: "running", "exit0", "exit1", "raised"
    documents,     \* build: the loaded pages
    chunks,        \* build: the chunks
    vectorstore,   \* build and query: the FAISS store in memory
    rag_chain,     \* query: the chain of the console programs
    response,      \* query: what the last chain call returned
    asked,         \* the questions submitted so far, in order
    calls,         \* the questions the chain was invoked with, in order
    question,      \* console: the line read, or the index of the next test question
    conversation_count,  \* chat_loop's counter
    session_state, \* web: st.session_state
    event,         \* web: the widget event that triggered the current run
    widgets,       \* web: the widgets the last run rendered
    opened         \* query: the files of the index directory the program has read

vars == <<apiKey, pdf, disk, entry, pc, out, exc, status, documents, chunks,
          vectorstore, rag_chain, response, asked, calls, question,
          conversation_count, session_state, event, widgets, opened>>

-----------------------------------------------------------------------------
(* Configuration *)

CHUNK_SIZE == 500
CHUNK_OVERLAP == 50
TOP_K_CHUNKS == 4
PreviewLen == 100

\* Bounds of the model
MaxPages == 5
MaxQuestions == 2

None == "None"
NL == "\n"
Min(a, b) == IF a < b THEN a ELSE b
Max(a, b) == IF a > b THEN a ELSE b
Run(c, n) == [i \in 1..n |-> c]

-----------------------------------------------------------------------------
(* Python's dict.get, str.strip and str.find *)

\* Only({F(v) : v \in {e}}) is F(e) with e computed once, where LET would
\* compute e again at every use of v
Only(S) == CHOOSE v \in S : TRUE

Get(d, key, default) == IF key \in DOMAIN d THEN d[key] ELSE default

IsWhite(c) == c \in {" ", NL}
\* t.strip(): from the first to the last character that is not whitespace
Strip(t) ==
    IF \A i \in 1..Len(t) : IsWhite(t[i]) THEN <<>>
    ELSE SubSeq(t,
                CHOOSE i \in 1..Len(t) :
                    ~IsWhite(t[i]) /\ \A j \in 1..(i - 1) : IsWhite(t[j]),
                CHOOSE i \in 1..Len(t) :
                    ~IsWhite(t[i]) /\ \A j \in (i + 1)..Len(t) : IsWhite(t[j]))

MatchAt(text, sub, i) ==
    /\ i >= 1
    /\ i + Len(sub) - 1 <= Len(text)
    /\ \A j \in 1..Len(sub) : text[i + j - 1] = sub[j]

\* str.find(sub, start) with 0-based positions; -1 when there is no match
Find(text, sub, start) ==
    LET at == (start + 1)..(Len(text) - Len(sub) + 1)
    IN IF \E i \in at : MatchAt(text, sub, i)
       THEN (CHOOSE i \in at : /\ MatchAt(text, sub, i)
                               /\ \A j \in (start + 1)..(i - 1) : ~MatchAt(text, sub, j)) - 1
       ELSE -1

-----------------------------------------------------------------------------
(* RecursiveCharacterTextSplitter(chunk_size, chunk_overlap, len,          *)
(* separators, add_start_index=True), as chunk_documents configures it.    *)
(* A for loop is folded over its index range, first half before second.    *)

Separators == << <<NL, NL>>, <<NL>>, <<".">>, <<" ">>, <<>> >>

\* re.split: where the non-overlapping matches of sep start, leftmost first
FindStep(text, sep, st, i) ==
    IF i >= st.next /\ MatchAt(text, sep, i)
    THEN [found |-> Append(st.found, i), next |-> i + Len(sep)]
    ELSE st
RECURSIVE FindLoop(_, _, _, _, _)
FindLoop(text, sep, lo, hi, st) ==
    IF lo > hi THEN st
    ELSE IF lo = hi THEN FindStep(text, sep, st, lo)
    ELSE Only({FindLoop(text, sep, ((lo + hi) \div 2) + 1, hi, left) :
                 left \in {FindLoop(text, sep, lo, (lo + hi) \div 2, st)}})
FindAll(text, sep) ==
    FindLoop(text, sep, 1, Len(text), [found |-> <<>>, next |-> 1]).found
Occurs(text, sep) == \E i \in 1..Len(text) : MatchAt(text, sep, i)

\* _split_text_with_regex with keep_separator: each separator stays at the
\* start of the piece that follows it; empty pieces are dropped
Pieces(text, at) ==
    [i \in 1..(Len(at) + 1) |->
        IF i = 1
        THEN SubSeq(text, 1, (IF Len(at) = 0 THEN Len(text) ELSE at[1] - 1))
        ELSE SubSeq(text, at[i - 1], (IF i = Len(at) + 1 THEN Len(text) ELSE at[i] - 1))]
SplitWithRegex(text, sep) ==
    IF sep = <<>>
    THEN [i \in 1..Len(text) |-> <<text[i]>>]
    ELSE Only({SelectSeq(Pieces(text, at), LAMBDA s : s # <<>>) :
                 at \in {FindAll(text, sep)}})

RECURSIVE Concat(_, _, _)
Concat(ps, lo, hi) ==
    IF lo > hi THEN <<>>
    ELSE IF lo = hi THEN ps[lo]
    ELSE Concat(ps, lo, (lo + hi) \div 2) \o Concat(ps, ((lo + hi) \div 2) + 1, hi)

\* _join_docs with the empty separator and strip_whitespace; <<>> stands for None
JoinDocs(cur) == Only({Strip(joined) : joined \in {Concat(cur, 1, Len(cur))}})

\* _merge_splits: the while loop that drops pieces from the front of
\* current_doc; it runs at most once per piece of current_doc
PopCond(st, len) ==
    st.total > CHUNK_OVERLAP \/ (st.total + len > CHUNK_SIZE /\ st.total > 0)
PopStep(st, len) ==
    IF PopCond(st, len)
    THEN [st EXCEPT !.total = st.total - Len(st.cur[1]), !.cur = Tail(st.cur)]
    ELSE st
RECURSIVE PopLoop(_, _, _, _)
PopLoop(st, len, lo, hi) ==
    IF lo > hi THEN st
    ELSE IF lo = hi THEN PopStep(st, len)
    ELSE Only({PopLoop(left, len, ((lo + hi) \div 2) + 1, hi) :
                 left \in {PopLoop(st, len, lo, (lo + hi) \div 2)}})

\* a merge that never starts a new chunk
NoFlush(st, d) == st
\* _merge_splits: one iteration of `for d in splits`
Flush(st, d) ==
    IF st.total + Len(d) > CHUNK_SIZE /\ Len(st.cur) > 0
    THEN Only({PopLoop([st EXCEPT !.docs = IF doc = <<>> THEN st.docs
                                            ELSE Append(st.docs, doc)],
                       Len(d), 1, Len(st.cur)) :
                 doc \in {JoinDocs(st.cur)}})
    ELSE st
MergeStep(st, d) ==
    Only({[flushed EXCEPT !.cur = Append(flushed.cur, d),
                          !.total = flushed.total + Len(d)] :
            flushed \in {Flush(st, d)}})
RECURSIVE MergeLoop(_, _, _, _)
MergeLoop(splits, lo, hi, st) ==
    IF lo > hi THEN st
    ELSE IF lo = hi THEN MergeStep(st, splits[lo])
    ELSE Only({MergeLoop(splits, ((lo + hi) \div 2) + 1, hi, left) :
                 left \in {MergeLoop(splits, lo, (lo + hi) \div 2, st)}})
MergeSplits(splits) ==
    Only({Only({IF doc = <<>> THEN st.docs ELSE Append(st.docs, doc) :
                  doc \in {JoinDocs(st.cur)}}) :
            st \in {MergeLoop(splits, 1, Len(splits),
                              [docs |-> <<>>, cur |-> <<>>, total |-> 0])}})

\* _split_text: the first separator that is "" or occurs in the text, else the last
PickSep(text, seps) ==
    CHOOSE k \in 1..Len(seps) :
        /\ seps[k] = <<>> \/ Occurs(text, seps[k]) \/ k = Len(seps)
        /\ \A j \in 1..(k - 1) : seps[j] # <<>> /\ ~Occurs(text, seps[j])

RECURSIVE SplitText(_, _)
RECURSIVE SplitLoop(_, _, _, _, _)
\* _split_text: one iteration of `for s in splits`
SplitStep(st, s, rest) ==
    IF Len(s) < CHUNK_SIZE
    THEN [st EXCEPT !.good = Append(st.good, s)]
    ELSE [final |-> st.final
                    \o (IF st.good # <<>> THEN MergeSplits(st.good) ELSE <<>>)
                    \o (IF rest = <<>> THEN <<s>> ELSE SplitText(s, rest)),
          good |-> <<>>]
SplitLoop(splits, rest, lo, hi, st) ==
    IF lo > hi THEN st
    ELSE IF lo = hi THEN SplitStep(st, splits[lo], rest)
    ELSE Only({SplitLoop(splits, rest, ((lo + hi) \div 2) + 1, hi, left) :
                 left \in {SplitLoop(splits, rest, lo, (lo + hi) \div 2, st)}})
SplitWith(text, seps, k) ==
    Only({Only({IF st.good # <<>> THEN st.final \o MergeSplits(st.good) ELSE st.final :
                  st \in {SplitLoop(splits,
                                    (IF seps[k] = <<>> THEN <<>>
                                     ELSE SubSeq(seps, k + 1, Len(seps))),
                                    1, Len(splits), [final |-> <<>>, good |-> <<>>])}}) :
            splits \in {SplitWithRegex(text, seps[k])}})
SplitText(text, seps) ==
    Only({SplitWith(text, seps, k) : k \in {PickSep(text, seps)}})

\* create_documents: the chunks of one document, each with a copy of the
\* document's metadata and its start_index
RECURSIVE StartIndexes(_, _, _, _, _)
StartIndexes(text, pieces, i, index, previous_chunk_len) ==
    IF i > Len(pieces) THEN <<>>
    ELSE Only({<<at>> \o StartIndexes(text, pieces, i + 1, at, Len(pieces[i])) :
                 at \in {Find(text, pieces[i],
                              Max(0, index + previous_chunk_len - CHUNK_OVERLAP))}})
CreateDocuments(doc) ==
    Only({Only({[i \in 1..Len(pieces) |->
                   [page_content |-> pieces[i],
                    metadata |-> doc.metadata @@ ("start_index" :> starts[i])]] :
                  starts \in {StartIndexes(doc.page_content, pieces, 1, 0, 0)}}) :
            pieces \in {SplitText(doc.page_content, Separators)}})
RECURSIVE SplitDocuments(_, _)
SplitDocuments(docs, i) ==
    IF i > Len(docs) THEN <<>>
    ELSE CreateDocuments(docs[i]) \o SplitDocuments(docs, i + 1)

-----------------------------------------------------------------------------
(* build_vectorstore.py *)

SectionWord == <<"S", "e", "c", "t", "i", "o", "n">>
Prefix(text, n) == SubSeq(text, 1, Min(n, Len(text)))

\* PyPDFLoader(pdf_path).load(): one Document per page, 0-based page number
LoaderLoad(pages) ==
    [i \in 1..Len(pages) |->
        [page_content |-> pages[i],
         metadata |-> [source |-> "pdf_path", page |-> i - 1]]]

\* the loader's 0-based page number left in place
EnhanceKeepPage(doc, i) ==
    [doc EXCEPT !.metadata = [doc.metadata EXCEPT !.source = "HSWA 2015"]]
\* the loop body of load_pdf_with_metadata, for the document at 0-based index i
Enhance(doc, i) ==
    [doc EXCEPT !.metadata =
        IF \E at \in 1..100 : MatchAt(Prefix(doc.page_content, 100), SectionWord, at)
        THEN [doc.metadata EXCEPT !.page = i + 1, !.source = "HSWA 2015"]
             @@ ("has_section" :> TRUE)
        ELSE [doc.metadata EXCEPT !.page = i + 1, !.source = "HSWA 2015"]]
load_pdf_with_metadata(pages) ==
    Only({[i \in 1..Len(loaded) |-> Enhance(loaded[i], i - 1)] :
            loaded \in {LoaderLoad(pages)}})

\* chunk ids counted from one
NumberFromOne(chunk, i) ==
    [chunk EXCEPT !.metadata =
        chunk.metadata @@ ("chunk_id" :> i + 1)
                       @@ ("chunk_size" :> Len(chunk.page_content))]
\* the loop body of chunk_documents, for the chunk at 0-based index i
Number(chunk, i) ==
    [chunk EXCEPT !.metadata =
        chunk.metadata @@ ("chunk_id" :> i)
                       @@ ("chunk_size" :> Len(chunk.page_content))]
chunk_documents(docs) ==
    Only({[i \in 1..Len(split) |-> Number(split[i], i - 1)] :
            split \in {SplitDocuments(docs, 1)}})

\* HuggingFaceEmbeddings: a text's vector.  The model is a fixed function of
\* the text; here a number in 0..6
Embed(text) ==
    (Len(text) + 3 * Cardinality({i \in 1..Len(text) : text[i] = "."})) % 7

\* FAISS.from_documents: one vector per chunk, and the docstore in the same order
create_vectorstore(cs) ==
    [docs |-> cs, vectors |-> [i \in 1..Len(cs) |-> Embed(cs[i].page_content)]]

\* save_vectorstore's sidecar list
chunk_metadata(cs) ==
    [i \in 1..Len(cs) |->
        [chunk_id |-> Get(cs[i].metadata, "chunk_id", None),
         page |-> Get(cs[i].metadata, "page", None),
         chunk_size |-> Get(cs[i].metadata, "chunk_size", None),
         preview |-> Prefix(cs[i].page_content, PreviewLen) \o <<".", ".", ".">>]]

-----------------------------------------------------------------------------
(* rag_chain.py *)

\* the embedding model applied to a question: the same model as for the chunks
EmbedQuery(q) == Embed(q)

Dist(a, b) == IF a < b THEN b - a ELSE a - b

\* FAISS similarity_search(query, k): the k stored chunks nearest to the query,
\* nearest first (equal distances in index order); fewer when fewer are stored
similarity_search(store, q, k) ==
    LET n == Len(store.vectors)
        d(i) == Dist(store.vectors[i], EmbedQuery(q))
        before(j, i) == d(j) < d(i) \/ (d(j) = d(i) /\ j < i)
        rank(i) == Cardinality({j \in 1..n : before(j, i)}) + 1
    IN [r \in 1..Min(k, n) |-> store.docs[CHOOSE i \in 1..n : rank(i) = r]]

\* a retriever with test_vectorstore.py's k
RetrieveThree(store) == [store |-> store, k |-> 3]
\* vectorstore.as_retriever(search_type="similarity", search_kwargs={"k": TOP_K_CHUNKS})
as_retriever(store) == [store |-> store, k |-> TOP_K_CHUNKS]

NoStore == [docs |-> <<>>, vectors |-> <<>>]
NoChain == [retriever |-> [store |-> NoStore, k |-> 0], return_source_documents |-> FALSE]
NoResponse == [query |-> <<>>, result |-> [question |-> <<>>, context |-> <<>>],
               source_documents |-> <<>>]

KeyMissing == apiKey \in {"unset", "empty"}

\* create_rag_chain past its key check: RetrievalQA.from_chain_type(llm, "stuff",
\* retriever, return_source_documents=True, prompt)
create_rag_chain(store) ==
    [retriever |-> as_retriever(store), return_source_documents |-> TRUE]

\* PROMPT_TEMPLATE filled in: the retrieved chunks as context, and the question
Prompt(docs, q) ==
    [context |-> [i \in 1..Len(docs) |-> docs[i].metadata.chunk_id], question |-> q]

\* rag_chain({"query": q}) when the LLM answers: the text generated for the
\* prompt, with the chunks that went into it
Invoke(chain, q) ==
    Only({[query |-> q,
           result |-> Prompt(docs, q),
           source_documents |-> IF chain.return_source_documents THEN docs ELSE <<>>] :
            docs \in {similarity_search(chain.retriever.store, q, chain.retriever.k)}})

\* load_vectorstore: FAISS.load_local reads the index files of VECTORSTORE_PATH
IndexFiles == {"index.faiss", "index.pkl"}
Sidecar == "chunks_metadata.pkl"
load_local(files) == [docs |-> files["index.pkl"], vectors |-> files["index.faiss"]]
\* every file of the directory
index_directory == IndexFiles \cup {Sidecar}
load_reads == IndexFiles

-----------------------------------------------------------------------------
(* The inputs *)

\* The PDFs: the runs of at most MaxPages consecutive pages of a document
\* whose pages repeat a short page, a blank page and a page with a section
\* heading, and three documents with pages longer than a chunk
Blank == <<" ", NL>>
PageTexts == <<SectionWord \o <<" ", "a", "a">>, Blank, <<"a", ".">>>>
PageOf(i) == PageTexts[((i - 1) % Len(PageTexts)) + 1]
LongWord == Run("a", 600)
LongMixed == Run("a", 499) \o <<NL, NL, NL>> \o Run("a", 500) \o <<" ">> \o Run("a", 20)
Line == <<"a", "a", "a", " ", "a", "a", ".", NL>>
LongProse == [i \in 1..(75 * Len(Line)) |-> Line[((i - 1) % Len(Line)) + 1]]
LongBooks == {<<LongWord>>, <<LongProse>>, <<LongMixed, Blank, LongWord>>}
Books ==
    {[i \in 1..n |-> PageOf(first + i - 1)] : first \in 1..Len(PageTexts), n \in 0..MaxPages}
    \cup LongBooks

\* Questions are texts too
Who == <<"w", "h", "o">>
What == <<"w", "h", "a", "t", ".">>
UserQuestions == {Who, What}
\* rag_chain.main's five test questions
TestQuestions == <<Who, What, Who \o What, <<"w">>, What \o What>>

Event(kind, q) == [kind |-> kind, q |-> q]
NoEvent == Event("none", <<>>)

Info(what) == <<"info", what>>
Error(kind) == <<"error", kind>>
Range(s) == {s[i] : i \in 1..Len(s)}

Init ==
    /\ apiKey \in {"unset", "empty", "set"}
    /\ pdf \in Books
    /\ disk = <<>>
    /\ entry = "none"
    /\ pc = "off"
    /\ out = <<>>
    /\ exc = "none"
    /\ status = "none"
    /\ documents = <<>>
    /\ chunks = <<>>
    /\ vectorstore = NoStore
    /\ rag_chain = NoChain
    /\ response = NoResponse
    /\ asked = <<>>
    /\ calls = <<>>
    /\ question = <<>>
    /\ conversation_count = 0
    /\ session_state = <<>>
    /\ event = NoEvent
    /\ widgets = {}
    /\ opened = {}

Entries == {"build", "rag", "chat", "web"}
StartPc(e) ==
    CASE e = "build" -> "b_load" [] e = "rag" -> "r_load"
      [] e = "chat" -> "c_key" [] OTHER -> "w_guard"

\* A program is started once no other runs; it starts with fresh memory
Launch(e) ==
    /\ pc = "off"
    /\ entry' = e
    /\ pc' = StartPc(e)
    /\ out' = <<>>
    /\ exc' = "none"
    /\ status' = "running"
    /\ documents' = <<>>
    /\ chunks' = <<>>
    /\ vectorstore' = NoStore
    /\ rag_chain' = NoChain
    /\ response' = NoResponse
    /\ asked' = <<>>
    /\ calls' = <<>>
    /\ question' = <<>>
    /\ conversation_count' = 0
    /\ session_state' = <<>>
    /\ event' = IF e = "web" THEN Event("load", <<>>) ELSE NoEvent
    /\ widgets' = {}
    /\ opened' = {}
    /\ UNCHANGED <<apiKey, pdf, disk>>

-----------------------------------------------------------------------------
(* build_vectorstore.main *)

queryVars == <<rag_chain, response, asked, calls, question, conversation_count,
               session_state, event, widgets, opened>>

\* a step of the try block raises: control passes to the except clause
BuildRaise(kind) ==
    /\ exc' = kind
    /\ pc' = "b_except"

\* Step 1: load_pdf_with_metadata(PDF_PATH); the loader raises when the file
\* is missing or unreadable
BuildLoad ==
    /\ pc = "b_load"
    /\ \/ /\ documents' = load_pdf_with_metadata(pdf)
          /\ out' = out \o <<Info("loading"), Info("loaded")>>
          /\ pc' = "b_chunk"
          /\ UNCHANGED exc
       \/ /\ out' = Append(out, Info("loading"))
          /\ BuildRaise("pdf")
          /\ UNCHANGED documents
    /\ UNCHANGED <<apiKey, pdf, disk, entry, status, chunks, vectorstore>>
    /\ UNCHANGED queryVars

\* Step 2: chunk_documents(documents)
BuildChunk ==
    /\ pc = "b_chunk"
    /\ chunks' = chunk_documents(documents)
    /\ out' = out \o <<Info("chunking"), Info("chunked")>>
    /\ pc' = "b_embed"
    /\ UNCHANGED <<apiKey, pdf, disk, entry, exc, status, documents, vectorstore>>
    /\ UNCHANGED queryVars

\* Step 3: create_vectorstore(chunks); loading the embedding model may raise,
\* and FAISS.from_documents raises on an empty list
BuildEmbed ==
    /\ pc = "b_embed"
    /\ \/ /\ chunks # <<>>
          /\ vectorstore' = create_vectorstore(chunks)
          /\ out' = out \o <<Info("embedding"), Info("indexed")>>
          /\ pc' = "b_save_index"
          /\ UNCHANGED exc
       \/ /\ out' = Append(out, Info("embedding"))
          /\ BuildRaise("embed")
          /\ UNCHANGED vectorstore
    /\ UNCHANGED <<apiKey, pdf, disk, entry, status, documents, chunks>>
    /\ UNCHANGED queryVars

\* Step 4, first half: save_vectorstore makes the directory and calls
\* vectorstore.save_local, which writes index.faiss and index.pkl
BuildSaveIndex ==
    /\ pc = "b_save_index"
    /\ \/ /\ disk' = ("index.faiss" :> vectorstore.vectors)
                     @@ ("index.pkl" :> vectorstore.docs) @@ disk
          /\ out' = Append(out, Info("saving"))
          /\ pc' = "b_save_meta"
          /\ UNCHANGED exc
       \/ /\ out' = Append(out, Info("saving"))
          /\ BuildRaise("disk")
          /\ UNCHANGED disk
    /\ UNCHANGED <<apiKey, pdf, entry, status, documents, chunks, vectorstore>>
    /\ UNCHANGED queryVars

\* Step 4, second half: the sidecar chunks_metadata.pkl
BuildSaveMeta ==
    /\ pc = "b_save_meta"
    /\ \/ /\ disk' = (Sidecar :> chunk_metadata(chunks)) @@ disk
          /\ out' = Append(out, Info("saved"))
          /\ pc' = "b_stats"
          /\ UNCHANGED exc
       \/ /\ BuildRaise("disk")
          /\ UNCHANGED <<disk, out>>
    /\ UNCHANGED <<apiKey, pdf, entry, status, documents, chunks, vectorstore>>
    /\ UNCHANGED queryVars

\* Step 5 and the banner: print_statistics(chunks), then BUILD COMPLETE
BuildFinish ==
    /\ pc = "b_stats"
    /\ out' = out \o <<Info("statistics"), Info("complete")>>
    /\ pc' = "off"
    /\ status' = "exit0"
    /\ UNCHANGED <<apiKey, pdf, disk, entry, exc, documents, chunks, vectorstore>>
    /\ UNCHANGED queryVars

\* the error printed and not re-raised
BuildExceptSwallow ==
    /\ pc = "b_except"
    /\ out' = Append(out, Error(exc))
    /\ pc' = "off"
    /\ status' = "exit0"
    /\ UNCHANGED <<apiKey, pdf, disk, entry, exc, documents, chunks, vectorstore>>
    /\ UNCHANGED queryVars

\* except Exception as e: print the error and re-raise
BuildExcept ==
    /\ pc = "b_except"
    /\ out' = Append(out, Error(exc))
    /\ pc' = "off"
    /\ status' = "raised"
    /\ UNCHANGED <<apiKey, pdf, disk, entry, exc, documents, chunks, vectorstore>>
    /\ UNCHANGED queryVars

Build ==
    \/ BuildLoad \/ BuildChunk \/ BuildEmbed \/ BuildSaveIndex \/ BuildSaveMeta
    \/ BuildFinish \/ BuildExcept

-----------------------------------------------------------------------------
(* What the query programs share *)

IndexOnDisk == IndexFiles \subseteq DOMAIN disk

\* why load_vectorstore raises: the index files are missing, or the embedding
\* model cannot be fetched
LoadFailure == IF IndexOnDisk THEN "network" ELSE "index"

\* the lines printed for the sources of a response: doc.metadata.get('page', 'N/A')
PageShown(doc) ==
    IF "page" \in DOMAIN doc.metadata THEN ToString(doc.metadata.page) ELSE "N/A"
format_sources(source_documents) ==
    [i \in 1..Len(source_documents) |-> <<"source", PageShown(source_documents[i])>>]

buildVars == <<documents, chunks>>
webVars == <<session_state, event, widgets>>

-----------------------------------------------------------------------------
(* rag_chain.main *)

\* Step 1: load_vectorstore()
RagLoad ==
    /\ pc = "r_load"
    /\ \/ /\ IndexOnDisk
          /\ vectorstore' = load_local(disk)
          /\ out' = Append(out, Info("loaded"))
          /\ pc' = "r_create"
          /\ opened' = opened \cup load_reads
          /\ UNCHANGED exc
       \/ /\ exc' = LoadFailure
          /\ pc' = "r_except"
          /\ UNCHANGED <<vectorstore, out, opened>>
    /\ UNCHANGED <<apiKey, pdf, disk, entry, status, rag_chain, response, asked, calls,
                   question, conversation_count>>
    /\ UNCHANGED <<buildVars, webVars>>

\* Step 2: create_rag_chain(vectorstore), which raises ValueError without a key
RagCreate ==
    /\ pc = "r_create"
    /\ IF KeyMissing
       THEN /\ exc' = "key"
            /\ pc' = "r_except"
            /\ UNCHANGED <<rag_chain, out>>
       ELSE /\ rag_chain' = create_rag_chain(vectorstore)
            /\ out' = Append(out, Info("ready"))
            /\ pc' = "r_ask"
            /\ UNCHANGED exc
    /\ UNCHANGED <<apiKey, pdf, disk, entry, status, vectorstore, response, asked, calls,
                   question, conversation_count>>
    /\ UNCHANGED <<buildVars, webVars>>
    /\ UNCHANGED opened

\* Step 3: ask_question(rag_chain, question) for the next test question
RagAsk ==
    /\ pc = "r_ask"
    /\ Len(asked) < Len(TestQuestions)
    /\ LET q == TestQuestions[Len(asked) + 1]
       IN /\ question' = q
          /\ asked' = Append(asked, q)
          /\ calls' = Append(calls, q)
          /\ \/ /\ response' = Invoke(rag_chain, q)
                /\ out' = out \o <<Info("answer")>>
                              \o format_sources(response'.source_documents)
                /\ UNCHANGED <<pc, exc>>
             \/ /\ exc' = "network"
                /\ pc' = "r_except"
                /\ UNCHANGED <<response, out>>
    /\ UNCHANGED <<apiKey, pdf, disk, entry, status, vectorstore, rag_chain,
                   conversation_count>>
    /\ UNCHANGED <<buildVars, webVars>>
    /\ UNCHANGED opened

\* after the last test question: the banner, and main returns
RagDone ==
    /\ pc = "r_ask"
    /\ Len(asked) = Len(TestQuestions)
    /\ out' = Append(out, Info("complete"))
    /\ pc' = "off"
    /\ status' = "exit0"
    /\ UNCHANGED <<apiKey, pdf, disk, entry, exc, vectorstore, rag_chain, response,
                   asked, calls, question, conversation_count>>
    /\ UNCHANGED <<buildVars, webVars>>
    /\ UNCHANGED opened

\* except Exception as e: print the error and re-raise
RagExcept ==
    /\ pc = "r_except"
    /\ out' = Append(out, Error(exc))
    /\ pc' = "off"
    /\ status' = "raised"
    /\ UNCHANGED <<apiKey, pdf, disk, entry, exc, vectorstore, rag_chain, response,
                   asked, calls, question, conversation_count>>
    /\ UNCHANGED <<buildVars, webVars>>
    /\ UNCHANGED opened

Rag == RagLoad \/ RagCreate \/ RagAsk \/ RagDone \/ RagExcept

-----------------------------------------------------------------------------
(* chat_interface.py *)

Lower(c) ==
    CASE c = "Q" -> "q" [] c = "U" -> "u" [] c = "I" -> "i" [] c = "T" -> "t"
      [] c = "E" -> "e" [] c = "X" -> "x" [] OTHER -> c
lower(t) == [i \in 1..Len(t) |-> Lower(t[i])]
ExitCommands == {<<"q", "u", "i", "t">>, <<"e", "x", "i", "t">>, <<"q">>}

\* the lines the user may type
Lines ==
    {<<"q", "u", "i", "t">>, <<" ", "E", "x", "i", "t">>, <<"Q", " ">>,
     <<>>, <<" ", " ">>} \cup UserQuestions \cup {<<" ">> \o Who}

\* the prompt: what is on the screen belongs to the turn that starts here
Farewell == <<Info("bye"), Info("total")>>

\* main: the key check, sys.exit(1) without a key
ChatKey ==
    /\ pc = "c_key"
    /\ IF KeyMissing
       THEN /\ out' = Append(out, Error("key"))
            /\ exc' = "key"
            /\ status' = "exit1"
            /\ pc' = "off"
       ELSE /\ out' = Append(out, Info("initializing"))
            /\ pc' = "c_load"
            /\ UNCHANGED <<exc, status>>
    /\ UNCHANGED <<apiKey, pdf, disk, entry, vectorstore, rag_chain, response, asked,
                   calls, question, conversation_count>>
    /\ UNCHANGED <<buildVars, webVars>>
    /\ UNCHANGED opened

\* main: load_vectorstore()
ChatLoad ==
    /\ pc = "c_load"
    /\ \/ /\ IndexOnDisk
          /\ vectorstore' = load_local(disk)
          /\ out' = Append(out, Info("loaded"))
          /\ pc' = "c_create"
          /\ opened' = opened \cup load_reads
          /\ UNCHANGED exc
       \/ /\ exc' = LoadFailure
          /\ pc' = "c_fatal"
          /\ UNCHANGED <<vectorstore, out, opened>>
    /\ UNCHANGED <<apiKey, pdf, disk, entry, status, rag_chain, response, asked, calls,
                   question, conversation_count>>
    /\ UNCHANGED <<buildVars, webVars>>

\* main: create_rag_chain(vectorstore), then chat_loop prints its header
ChatCreate ==
    /\ pc = "c_create"
    /\ IF KeyMissing
       THEN /\ exc' = "key"
            /\ pc' = "c_fatal"
            /\ UNCHANGED <<rag_chain, out>>
       ELSE /\ rag_chain' = create_rag_chain(vectorstore)
            /\ out' = out \o <<Info("ready"), Info("header")>>
            /\ pc' = "c_read"
            /\ UNCHANGED exc
    /\ UNCHANGED <<apiKey, pdf, disk, entry, status, vectorstore, response, asked, calls,
                   question, conversation_count>>
    /\ UNCHANGED <<buildVars, webVars>>
    /\ UNCHANGED opened

\* main: except Exception as e: print "Fatal error" and sys.exit(1)
ChatFatal ==
    /\ pc = "c_fatal"
    /\ out' = Append(out, Error(exc))
    /\ status' = "exit1"
    /\ pc' = "off"
    /\ UNCHANGED <<apiKey, pdf, disk, entry, exc, vectorstore, rag_chain, response,
                   asked, calls, question, conversation_count>>
    /\ UNCHANGED <<buildVars, webVars>>
    /\ UNCHANGED opened

\* chat_loop: input("You: ").strip(), the exit commands and the blank line.
\* out holds what was printed since this prompt
ChatRead ==
    /\ pc = "c_read"
    /\ \/ \E line \in Lines :
            LET q == Strip(line)
            IN /\ question' = q
               /\ exc' = "none"
               /\ IF lower(q) \in ExitCommands
                  THEN /\ out' = Farewell
                       /\ status' = "exit0"
                       /\ pc' = "off"
                       /\ UNCHANGED asked
                  ELSE IF q = <<>>
                  THEN /\ out' = <<>>
                       /\ UNCHANGED <<asked, status, pc>>
                  ELSE /\ Len(asked) < MaxQuestions
                       /\ asked' = Append(asked, q)
                       /\ out' = <<Info("thinking")>>
                       /\ pc' = "c_ask"
                       /\ UNCHANGED status
       \/ \* input raises KeyboardInterrupt
          /\ out' = Farewell
          /\ exc' = "KeyboardInterrupt"
          /\ status' = "exit0"
          /\ pc' = "off"
          /\ UNCHANGED <<asked, question>>
       \/ \* input raises EOFError
          /\ out' = <<>>
          /\ exc' = "eof"
          /\ pc' = "c_loop_except"
          /\ UNCHANGED <<asked, question, status>>
    /\ UNCHANGED <<apiKey, pdf, disk, entry, vectorstore, rag_chain, response, calls,
                   conversation_count>>
    /\ UNCHANGED <<buildVars, webVars>>
    /\ UNCHANGED opened

\* chat_loop: rag_chain({"query": question}) and the answer with its sources
ChatAsk ==
    /\ pc = "c_ask"
    /\ calls' = Append(calls, question)
    /\ \/ /\ response' = Invoke(rag_chain, question)
          /\ out' = out \o <<Info("answer")>> \o format_sources(response'.source_documents)
          /\ conversation_count' = conversation_count + 1
          /\ pc' = "c_read"
          /\ UNCHANGED <<exc, status>>
       \/ /\ exc' = "network"
          /\ pc' = "c_loop_except"
          /\ UNCHANGED <<response, out, conversation_count, status>>
       \/ \* KeyboardInterrupt while the chain runs
          /\ out' = out \o Farewell
          /\ exc' = "KeyboardInterrupt"
          /\ status' = "exit0"
          /\ pc' = "off"
          /\ UNCHANGED <<response, conversation_count>>
    /\ UNCHANGED <<apiKey, pdf, disk, entry, vectorstore, rag_chain, asked, question>>
    /\ UNCHANGED <<buildVars, webVars>>
    /\ UNCHANGED opened

\* the error printed and the loop left
ChatLoopExceptBreak ==
    /\ pc = "c_loop_except"
    /\ out' = Append(out, Error(exc)) \o <<Info("total")>>
    /\ pc' = "off"
    /\ status' = "exit0"
    /\ UNCHANGED <<apiKey, pdf, disk, entry, exc, vectorstore, rag_chain,
                   response, asked, calls, question, conversation_count>>
    /\ UNCHANGED <<buildVars, webVars>>
    /\ UNCHANGED opened

\* chat_loop: except Exception as e: print the error and continue
ChatLoopExcept ==
    /\ pc = "c_loop_except"
    /\ out' = Append(out, Error(exc))
    /\ pc' = "c_read"
    /\ UNCHANGED <<apiKey, pdf, disk, entry, exc, status, vectorstore, rag_chain,
                   response, asked, calls, question, conversation_count>>
    /\ UNCHANGED <<buildVars, webVars>>
    /\ UNCHANGED opened

Chat == ChatKey \/ ChatLoad \/ ChatCreate \/ ChatFatal \/ ChatRead \/ ChatAsk
        \/ ChatLoopExcept

-----------------------------------------------------------------------------
(* app.py: one session of the web app.  Streamlit runs the script from the   *)
(* top for the page load and for every widget event; st.stop() ends the run,  *)
(* st.rerun() starts the next one at once.  initialize_rag_chain is cached    *)
(* per server process (st.cache_resource), which one session never hits: it   *)
(* calls the function only while its own session has no chain.                *)

ExampleQuestions == {Who}
consoleVars == <<vectorstore, rag_chain, question, conversation_count>>

messages == session_state["messages"]
UserTurn(q) == [role |-> "user", content |-> q]
\* an assistant turn stored without its sources
AssistantTurnBare(r) == [role |-> "assistant", content |-> r.result]
AssistantTurn(r) ==
    [role |-> "assistant", content |-> r.result, sources |-> r.source_documents]

\* main() without the guard
WebNoGuard ==
    /\ pc = "w_guard"
    /\ widgets' = {}
    /\ out' = <<>>
    /\ exc' = "none"
    /\ pc' = "w_sidebar"
    /\ UNCHANGED <<apiKey, pdf, disk, entry, status, response, asked, calls,
                   session_state, event>>
    /\ UNCHANGED <<buildVars, consoleVars>>
    /\ UNCHANGED opened

\* the __main__ guard: without a key, st.error and st.stop before main()
WebGuard ==
    /\ pc = "w_guard"
    /\ widgets' = {}
    /\ IF KeyMissing
       THEN /\ out' = <<Error("key")>>
            /\ exc' = "key"
            /\ pc' = "w_idle"
       ELSE /\ out' = <<>>
            /\ exc' = "none"
            /\ pc' = "w_sidebar"
    /\ UNCHANGED <<apiKey, pdf, disk, entry, status, response, asked, calls,
                   session_state, event>>
    /\ UNCHANGED <<buildVars, consoleVars>>
    /\ UNCHANGED opened

\* main: the header and the sidebar with the example buttons; the button
\* that was clicked stores its question
WebSidebar ==
    /\ pc = "w_sidebar"
    /\ widgets' = widgets \cup {"example"}
    /\ session_state' = IF event.kind = "example"
                        THEN ("example_question" :> event.q) @@ session_state
                        ELSE session_state
    /\ pc' = "w_init"
    /\ UNCHANGED <<apiKey, pdf, disk, entry, out, exc, status, response, asked, calls,
                   event>>
    /\ UNCHANGED <<buildVars, consoleVars>>
    /\ UNCHANGED opened

WithMessages(ss) == IF "messages" \in DOMAIN ss THEN ss ELSE ("messages" :> <<>>) @@ ss

\* main: the chat history and the RAG chain of the session
WebInit ==
    /\ pc = "w_init"
    /\ IF "rag_chain" \in DOMAIN WithMessages(session_state)
       THEN /\ session_state' = WithMessages(session_state)
            /\ pc' = "w_example"
            /\ UNCHANGED <<exc, opened>>
       ELSE \/ /\ IndexOnDisk
               /\ ~KeyMissing
               /\ session_state' =
                     ("rag_chain" :> create_rag_chain(load_local(disk)))
                     @@ WithMessages(session_state)
               /\ opened' = opened \cup load_reads
               /\ pc' = "w_example"
               /\ UNCHANGED exc
            \/ /\ exc' \in {LoadFailure} \cup (IF IndexOnDisk /\ KeyMissing
                                               THEN {"key"} ELSE {})
               /\ opened' = opened \cup (IF exc' = "key" THEN load_reads ELSE {})
               /\ session_state' = WithMessages(session_state)
               /\ pc' = "w_init_except"
    /\ UNCHANGED <<apiKey, pdf, disk, entry, out, status, response, asked, calls,
                   event, widgets>>
    /\ UNCHANGED <<buildVars, consoleVars>>

\* st.stop() without the st.error before it
WebInitStop ==
    /\ pc = "w_init_except"
    /\ pc' = "w_idle"
    /\ UNCHANGED <<apiKey, pdf, disk, entry, out, exc, status, response, asked, calls,
                   session_state, event, widgets, opened>>
    /\ UNCHANGED <<buildVars, consoleVars>>

\* main: except Exception as e: st.error and st.stop
WebInitExcept ==
    /\ pc = "w_init_except"
    /\ out' = Append(out, Error(exc))
    /\ pc' = "w_idle"
    /\ UNCHANGED <<apiKey, pdf, disk, entry, exc, status, response, asked, calls,
                   session_state, event, widgets>>
    /\ UNCHANGED <<buildVars, consoleVars>>
    /\ UNCHANGED opened

Without(ss, key) == [k \in DOMAIN ss \ {key} |-> ss[k]]
\* an assignment in place of the append
SetMessages(ss, m) == [ss EXCEPT !["messages"] = <<m>>]
AppendMessage(ss, m) == [ss EXCEPT !["messages"] = Append(@, m)]

\* the example question answered but left in the session
WebExampleKeep ==
    /\ pc = "w_example"
    /\ IF "example_question" \in DOMAIN session_state
       THEN LET q == session_state["example_question"]
                ss == AppendMessage(session_state, UserTurn(q))
            IN /\ calls' = Append(calls, q)
               /\ \/ /\ response' = Invoke(ss["rag_chain"], q)
                     /\ session_state' = AppendMessage(ss, AssistantTurn(response'))
                     /\ pc' = "w_display"
                     /\ UNCHANGED exc
                  \/ /\ exc' = "network"
                     /\ session_state' = ss
                     /\ pc' = "w_example_except"
                     /\ UNCHANGED response
       ELSE /\ pc' = "w_display"
            /\ UNCHANGED <<calls, response, session_state, exc>>
    /\ UNCHANGED <<apiKey, pdf, disk, entry, out, status, asked, event, widgets>>
    /\ UNCHANGED <<buildVars, consoleVars>>
    /\ UNCHANGED opened

\* main: the example question stored by the sidebar is taken out of the
\* session and answered
WebExample ==
    /\ pc = "w_example"
    /\ IF "example_question" \in DOMAIN session_state
       THEN LET q == session_state["example_question"]
                ss == AppendMessage(Without(session_state, "example_question"),
                                    UserTurn(q))
            IN /\ calls' = Append(calls, q)
               /\ \/ /\ response' = Invoke(ss["rag_chain"], q)
                     /\ session_state' = AppendMessage(ss, AssistantTurn(response'))
                     /\ pc' = "w_display"
                     /\ UNCHANGED exc
                  \/ /\ exc' = "network"
                     /\ session_state' = ss
                     /\ pc' = "w_example_except"
                     /\ UNCHANGED response
       ELSE /\ pc' = "w_display"
            /\ UNCHANGED <<calls, response, session_state, exc>>
    /\ UNCHANGED <<apiKey, pdf, disk, entry, out, status, asked, event, widgets>>
    /\ UNCHANGED <<buildVars, consoleVars>>
    /\ UNCHANGED opened

\* main: except Exception as e: st.error
WebExampleExcept ==
    /\ pc = "w_example_except"
    /\ out' = Append(out, Error(exc))
    /\ pc' = "w_display"
    /\ UNCHANGED <<apiKey, pdf, disk, entry, exc, status, response, asked, calls,
                   session_state, event, widgets>>
    /\ UNCHANGED <<buildVars, consoleVars>>
    /\ UNCHANGED opened

\* what the history loop draws for one turn; message["sources"] of a turn
\* without sources is a KeyError
RenderMessage(m) ==
    IF m.role = "user" THEN <<Info("user")>>
    ELSE IF "sources" \in DOMAIN m
    THEN <<Info("assistant")>> \o format_sources(m.sources)
    ELSE <<Info("assistant"), Error("KeyError")>>
RECURSIVE RenderHistory(_, _)
RenderHistory(ms, i) ==
    IF i > Len(ms) THEN <<>> ELSE RenderMessage(ms[i]) \o RenderHistory(ms, i + 1)

\* main: display the chat history
WebDisplay ==
    /\ pc = "w_display"
    /\ out' = out \o RenderHistory(messages, 1)
    /\ pc' = "w_input"
    /\ UNCHANGED <<apiKey, pdf, disk, entry, exc, status, response, asked, calls,
                   session_state, event, widgets>>
    /\ UNCHANGED <<buildVars, consoleVars>>
    /\ UNCHANGED opened

\* main: the chat input; a submitted prompt is answered, and st.rerun()
\* follows the answer
WebInput ==
    /\ pc = "w_input"
    /\ widgets' = widgets \cup {"chat_input"}
    /\ IF event.kind = "chat"
       THEN LET ss == AppendMessage(session_state, UserTurn(event.q))
            IN /\ calls' = Append(calls, event.q)
               /\ \/ /\ response' = Invoke(ss["rag_chain"], event.q)
                     /\ session_state' = AppendMessage(ss, AssistantTurn(response'))
                     /\ event' = Event("rerun", <<>>)
                     /\ pc' = "w_guard"
                     /\ UNCHANGED exc
                  \/ /\ exc' = "network"
                     /\ session_state' = ss
                     /\ pc' = "w_input_except"
                     /\ UNCHANGED <<response, event>>
       ELSE /\ pc' = "w_clear"
            /\ UNCHANGED <<calls, response, session_state, event, exc>>
    /\ UNCHANGED <<apiKey, pdf, disk, entry, out, status, asked>>
    /\ UNCHANGED <<buildVars, consoleVars>>
    /\ UNCHANGED opened

\* the error shown and also stored as an assistant turn
WebInputExceptApology ==
    /\ pc = "w_input_except"
    /\ out' = Append(out, Error(exc))
    /\ session_state' = AppendMessage(session_state, AssistantTurn(NoResponse))
    /\ pc' = "w_clear"
    /\ UNCHANGED <<apiKey, pdf, disk, entry, exc, status, response, asked, calls,
                   event, widgets>>
    /\ UNCHANGED <<buildVars, consoleVars>>
    /\ UNCHANGED opened

\* main: except Exception as e: st.error
WebInputExcept ==
    /\ pc = "w_input_except"
    /\ out' = Append(out, Error(exc))
    /\ pc' = "w_clear"
    /\ UNCHANGED <<apiKey, pdf, disk, entry, exc, status, response, asked, calls,
                   session_state, event, widgets>>
    /\ UNCHANGED <<buildVars, consoleVars>>
    /\ UNCHANGED opened

\* main: the clear button, drawn while there is history; a click empties the
\* history and st.rerun() follows.  The script ends here otherwise
WebClear ==
    /\ pc = "w_clear"
    /\ IF Len(messages) > 0
       THEN /\ widgets' = widgets \cup {"clear"}
            /\ IF event.kind = "clear"
               THEN /\ session_state' = [session_state EXCEPT !["messages"] = <<>>]
                    /\ event' = Event("rerun", <<>>)
                    /\ pc' = "w_guard"
               ELSE /\ pc' = "w_idle"
                    /\ UNCHANGED <<session_state, event>>
       ELSE /\ pc' = "w_idle"
            /\ UNCHANGED <<session_state, event, widgets>>
    /\ UNCHANGED <<apiKey, pdf, disk, entry, out, exc, status, response, asked, calls>>
    /\ UNCHANGED <<buildVars, consoleVars>>
    /\ UNCHANGED opened

\* the user acts on a widget the last run drew, or asks for a rerun; the
\* script runs again
WebEvent ==
    /\ pc = "w_idle"
    /\ \/ \E q \in ExampleQuestions :
            /\ "example" \in widgets
            /\ Len(asked) < MaxQuestions
            /\ event' = Event("example", q)
            /\ asked' = Append(asked, q)
       \/ \E q \in UserQuestions :
            /\ "chat_input" \in widgets
            /\ Len(asked) < MaxQuestions
            /\ event' = Event("chat", q)
            /\ asked' = Append(asked, q)
       \/ /\ "clear" \in widgets
          /\ event' = Event("clear", <<>>)
          /\ UNCHANGED asked
       \/ /\ event' = Event("rerun", <<>>)
          /\ UNCHANGED asked
    /\ pc' = "w_guard"
    /\ UNCHANGED <<apiKey, pdf, disk, entry, out, exc, status, response, calls,
                   session_state, widgets>>
    /\ UNCHANGED <<buildVars, consoleVars>>
    /\ UNCHANGED opened

\* the server is stopped between two runs
WebQuit ==
    /\ pc = "w_idle"
    /\ pc' = "off"
    /\ status' = "exit0"
    /\ UNCHANGED <<apiKey, pdf, disk, entry, out, exc, response, asked, calls,
                   session_state, event, widgets>>
    /\ UNCHANGED <<buildVars, consoleVars>>
    /\ UNCHANGED opened

Web == WebGuard \/ WebSidebar \/ WebInit \/ WebInitExcept \/ WebExample
       \/ WebExampleExcept \/ WebDisplay \/ WebInput \/ WebInputExcept \/ WebClear
       \/ WebEvent \/ WebQuit

Next ==
    \/ \E e \in Entries : Launch(e)
    \/ Build
    \/ Rag
    \/ Chat
    \/ Web

Spec == Init /\ [][Next]_vars

-----------------------------------------------------------------------------
(* Properties *)

FailureKinds == {"key", "index", "network"}
ExceptPcs == {"b_except", "r_except", "c_fatal", "c_loop_except",
              "w_init_except", "w_example_except", "w_input_except"}

\* C1: in every program, once a failure of the kinds missing API key, missing
\* index or network/LLM failure has been handled, its error message is among
\* what the user has been shown, whether the program then continues or
\* stops; a program that ends with an error status ends on that message
FailuresAreShown ==
    /\ (exc \in FailureKinds /\ pc \notin ExceptPcs) => Error(exc) \in Range(out)
    /\ status \in {"raised", "exit1"} => out # <<>> /\ out[Len(out)] = Error(exc)

\* the web app has stopped on a missing index, with the message on the page
MissingIndexShown ==
    /\ entry = "web"
    /\ pc = "w_idle"
    /\ exc = "index"
    /\ Error("index") \in Range(out)

IsPrefix(s, t) == Len(s) <= Len(t) /\ SubSeq(t, 1, Len(s)) = s
History == IF "messages" \in DOMAIN session_state THEN messages ELSE <<>>
InSession == entry = "web" /\ pc # "off"

\* C2 as stated: within one web session the history only grows at its end,
\* whatever the UI event, the clear-chat button included
HistoryAppendOnly ==
    [][InSession => IsPrefix(History, History')]_vars

\* C2: within one web session every step either leaves the earlier history as
\* a prefix of the later one, or is the click on the clear-chat button, which
\* empties the history
HistoryAppendOnlyUntilCleared ==
    [][InSession =>
         \/ IsPrefix(History, History')
         \/ pc = "w_clear" /\ event.kind = "clear" /\ History' = <<>>]_vars

\* a question was asked in this session and the history has been cleared since
HistoryCleared ==
    /\ entry = "web"
    /\ pc = "w_guard"
    /\ calls # <<>>
    /\ History = <<>>

RECURSIVE IsSubseq(_, _)
IsSubseq(s, t) ==
    IF s = <<>> THEN TRUE
    ELSE IF t = <<>> THEN FALSE
    ELSE IF Head(s) = Head(t) THEN IsSubseq(Tail(s), Tail(t))
    ELSE IsSubseq(s, Tail(t))
IsSuffix(s, t) == Len(s) <= Len(t) /\ SubSeq(t, Len(t) - Len(s) + 1, Len(t)) = s

\* the program waits for its next input, or has ended
AtRest == pc \in {"off", "r_ask", "c_read", "w_idle"}
HasChain == "rag_chain" \in DOMAIN session_state

\* C3 as stated: whenever a program is at rest, the chain has been invoked
\* exactly once for each question submitted so far, in the order submitted
OneCallPerQuestion == AtRest => calls = asked

\* C3: a submitted question causes at most one invocation of the chain, in
\* the order submitted: no question is sent again, neither after a failure
\* nor by a rerun.  At rest the console programs have invoked every question
\* submitted; the web session has invoked the most recent ones, and the
\* latest one once it has a chain: the questions it never invokes are example
\* questions clicked while its chain had failed to initialise
AtMostOneCallPerQuestion ==
    /\ IsSubseq(calls, asked)
    /\ (AtRest /\ entry \in {"rag", "chat"}) => calls = asked
    /\ (AtRest /\ entry = "web") =>
          /\ IsSuffix(calls, asked)
          /\ IF HasChain
             THEN asked # <<>> => calls # <<>>
             ELSE calls = <<>>

\* a web session with a chain that was asked two questions and invoked the
\* chain for the second only
ClickWithoutChainDropped ==
    /\ entry = "web"
    /\ pc = "w_idle"
    /\ HasChain
    /\ Len(asked) = 2
    /\ Len(calls) = 1

BuildTags == <<"loading", "loaded", "chunking", "chunked", "embedding", "indexed",
               "saving", "saved", "statistics", "complete">>
Infos(o) == SelectSeq(o, LAMBDA e : e[1] = "info")
Unwritten(f) ==
    /\ (f \in DOMAIN disk) = (f \in DOMAIN disk')
    /\ f \in DOMAIN disk => disk'[f] = disk[f]

\* what a build has printed: the steps' lines in the order of the steps, each
\* step's closing line only after the lines of all earlier steps; an error
\* only as the last line, of a run that ended by raising it; no banner and no
\* further step once a step has failed
BuildPrinted ==
    entry = "build" =>
        /\ Len(Infos(out)) <= Len(BuildTags)
        /\ Infos(out) = [i \in 1..Len(Infos(out)) |-> Info(BuildTags[i])]
        /\ \A i \in 1..Len(out) :
              out[i][1] = "error" =>
                  /\ i = Len(out)
                  /\ out[i] = Error(exc)
                  /\ pc = "off"
                  /\ status = "raised"
        /\ exc # "none" =>
              /\ pc \in {"b_except", "off"}
              /\ Info("complete") \notin Range(out)
              /\ pc = "off" => status = "raised" /\ out[Len(out)] = Error(exc)
        /\ Info("saving") \in Range(out) =>
              /\ documents = load_pdf_with_metadata(pdf)
              /\ chunks # <<>>
              /\ vectorstore = create_vectorstore(chunks)

\* C4: a build runs its steps in the order load, chunk, embed and index,
\* persist; the directory is written only by the persist step, after all
\* earlier steps have succeeded, the index files first and the sidecar after
\* them; when a step fails no later step runs, the error is printed and
\* raised again, and the banner is not printed
BuildStepsInOrder ==
    [][/\ BuildPrinted'
       /\ disk' # disk =>
             /\ entry = "build"
             /\ Info("indexed") \in Range(out)
             /\ \/ /\ pc = "b_save_index"
                   /\ Unwritten(Sidecar)
                \/ /\ pc = "b_save_meta"
                   /\ \A f \in IndexFiles : Unwritten(f)
                   /\ disk["index.faiss"] = vectorstore.vectors
                   /\ disk["index.pkl"] = vectorstore.docs
                   /\ disk'[Sidecar] = chunk_metadata(chunks)]_vars

\* a build that wrote the index files and failed writing the sidecar
BuildFailedAtSidecar ==
    /\ entry = "build"
    /\ status = "raised"
    /\ exc = "disk"
    /\ IndexOnDisk
    /\ Sidecar \notin DOMAIN disk
    /\ out[Len(out)] = Error("disk")

\* the indexed chunks a query program works on
Stored == load_local(disk)

\* C5: the response of an answered question holds the text generated for
\* that question from the retrieved chunks, together with those chunks; they
\* are min(TOP_K_CHUNKS, number of indexed chunks) distinct indexed chunks,
\* nearest first, and no chunk left out is nearer to the question than one
\* of them
AnswersCarryNearestSources ==
    response # NoResponse =>
        LET docs == response.source_documents
            n == Len(Stored.docs)
            at(i) == docs[i].metadata.chunk_id + 1
            d(j) == Dist(Stored.vectors[j], EmbedQuery(response.query))
        IN /\ response.query \in Range(calls)
           /\ response.result.question = response.query
           /\ response.result.context = [i \in 1..Len(docs) |-> docs[i].metadata.chunk_id]
           /\ Len(docs) = Min(TOP_K_CHUNKS, n)
           /\ Len(docs) <= TOP_K_CHUNKS
           /\ \A i \in 1..Len(docs) : at(i) \in 1..n /\ Stored.docs[at(i)] = docs[i]
           /\ \A i, j \in 1..Len(docs) : i < j => at(i) # at(j) /\ d(at(i)) <= d(at(j))
           /\ \A j \in 1..n \ {at(i) : i \in 1..Len(docs)} :
                 \A i \in 1..Len(docs) : d(at(i)) <= d(j)

\* an answer over an index of more than TOP_K_CHUNKS chunks
AnswerOverLargeIndex ==
    /\ response # NoResponse
    /\ Len(Stored.docs) > TOP_K_CHUNKS
    /\ Len(response.source_documents) = TOP_K_CHUNKS

BuildDone == entry = "build" /\ status = "exit0"
\* a query program holds the state it loads from the index directory
QueryLoaded ==
    \/ entry \in {"rag", "chat"} /\ vectorstore # NoStore
    \/ entry = "web" /\ HasChain
LoadedStore == IF entry = "web" THEN session_state["rag_chain"].retriever.store
               ELSE vectorstore

\* C6 as stated: a finished build has written the index files and the
\* sidecar, and a query program that has loaded its state has read the index
\* files and the sidecar
IndexAndSidecarBothRead ==
    /\ BuildDone => IndexFiles \cup {Sidecar} \subseteq DOMAIN disk
    /\ QueryLoaded => IndexFiles \cup {Sidecar} \subseteq opened

\* C6: a finished build has written the index files and the sidecar, from
\* its store and its chunks; a query program that has loaded its state has
\* read the index files and nothing else, and its store is what those files
\* hold; no program reads the sidecar
IndexReadSidecarNot ==
    /\ BuildDone =>
          /\ IndexFiles \cup {Sidecar} \subseteq DOMAIN disk
          /\ load_local(disk) = vectorstore
          /\ disk[Sidecar] = chunk_metadata(chunks)
    /\ QueryLoaded =>
          /\ opened = IndexFiles
          /\ LoadedStore = load_local(disk)
    /\ Sidecar \notin opened

\* a query program answered from an index directory that holds no sidecar
AnsweredWithoutSidecar ==
    /\ QueryLoaded
    /\ Sidecar \notin DOMAIN disk
    /\ response # NoResponse

\* C7: after a successful build over n chunks, the chunk ids are 0..n-1 in
\* chunk order, the index holds n vectors and n stored chunks, entry i being
\* chunk i, and the sidecar holds n records, record i describing the chunk
\* with chunk_id i
OneEntryPerChunk ==
    BuildDone =>
        /\ \A i \in 1..Len(chunks) : chunks[i].metadata.chunk_id = i - 1
        /\ Len(vectorstore.vectors) = Len(chunks)
        /\ Len(disk["index.faiss"]) = Len(chunks)
        /\ Len(disk["index.pkl"]) = Len(chunks)
        /\ Len(disk[Sidecar]) = Len(chunks)
        /\ \A i \in 1..Len(chunks) :
              /\ disk["index.pkl"][i] = chunks[i]
              /\ disk["index.faiss"][i] = Embed(chunks[i].page_content)
              /\ disk[Sidecar][i].chunk_id = i - 1
              /\ disk[Sidecar][i].page = chunks[i].metadata.page
              /\ disk[Sidecar][i].chunk_size = Len(chunks[i].page_content)
              /\ disk[Sidecar][i].preview =
                    Prefix(chunks[i].page_content, PreviewLen) \o <<".", ".", ".">>

\* a successful build over several chunks
BuiltSeveralChunks ==
    /\ BuildDone
    /\ Len(chunks) > TOP_K_CHUNKS
    /\ Len(disk[Sidecar]) = Len(chunks)

\* C8: while ANTHROPIC_API_KEY is unset or empty no program invokes the
\* chain or holds one: the chain script fails in create_rag_chain with the
\* key error, the console chat ends with status 1 on the key message before
\* it loads the store, and the web app shows the key message and stops
\* before main
NoKeyNoQuestion ==
    KeyMissing =>
        /\ calls = <<>>
        /\ rag_chain = NoChain
        /\ session_state = <<>>
        /\ entry = "rag" =>
              /\ pc \in {"r_load", "r_create", "r_except", "off"}
              /\ (vectorstore # NoStore /\ pc \in {"r_except", "off"}) => exc = "key"
              /\ pc = "off" => status = "raised"
        /\ entry = "chat" =>
              /\ pc \in {"c_key", "off"}
              /\ vectorstore = NoStore
              /\ opened = {}
              /\ pc = "off" => status = "exit1" /\ out = <<Error("key")>>
        /\ entry = "web" =>
              /\ pc \in {"w_guard", "w_idle", "off"}
              /\ widgets = {}
              /\ pc # "w_guard" => out = <<Error("key")>>

\* the web app stopped on the key message although the index is on disk
WebStoppedWithoutKey ==
    /\ KeyMissing
    /\ entry = "web"
    /\ pc = "w_idle"
    /\ IndexOnDisk
    /\ out = <<Error("key")>>

\* C9: every chunk chunk_documents returns is at most CHUNK_SIZE +
\* CHUNK_OVERLAP characters long, and its chunk_size is its length
ChunksWithinSize ==
    entry = "build" =>
        \A i \in 1..Len(chunks) :
            /\ Len(chunks[i].page_content) <= CHUNK_SIZE + CHUNK_OVERLAP
            /\ chunks[i].metadata.chunk_size = Len(chunks[i].page_content)

\* the chunks of a page longer than CHUNK_SIZE + CHUNK_OVERLAP, one of them
\* CHUNK_SIZE long
LongPageChunked ==
    /\ entry = "build"
    /\ \E p \in 1..Len(pdf) : Len(pdf[p]) > CHUNK_SIZE + CHUNK_OVERLAP
    /\ \E i \in 1..Len(chunks) : Len(chunks[i].page_content) = CHUNK_SIZE

\* the text of the chunk is in the page, at the chunk's start_index when it
\* has one
FromPage(chunk, page) ==
    IF chunk.metadata.start_index >= 0
    THEN MatchAt(page, chunk.page_content, chunk.metadata.start_index + 1)
    ELSE Occurs(page, chunk.page_content)
NoPage == <<"source", "N/A">>

\* C10: every chunk of a build has a page, the 1-based position among the
\* loaded pages of the page its text is from, and the chunks follow the
\* order of the pages; so do the chunks of an index on disk, and no source
\* line shown for a response or drawn for the history says N/A
ChunksCarryPage ==
    /\ entry = "build" =>
          /\ \A i \in 1..Len(chunks) :
                /\ "page" \in DOMAIN chunks[i].metadata
                /\ chunks[i].metadata.page \in 1..Len(pdf)
                /\ FromPage(chunks[i], pdf[chunks[i].metadata.page])
          /\ \A i \in 1..(Len(chunks) - 1) :
                chunks[i].metadata.page <= chunks[i + 1].metadata.page
    /\ IndexOnDisk =>
          \A i \in 1..Len(disk["index.pkl"]) :
              /\ "page" \in DOMAIN disk["index.pkl"][i].metadata
              /\ disk["index.pkl"][i].metadata.page >= 1
    /\ NoPage \notin Range(out)
    /\ NoPage \notin Range(format_sources(response.source_documents))
    /\ \A i \in 1..Len(History) : NoPage \notin Range(RenderMessage(History[i]))

\* an answer whose sources are shown with their pages, one of them from a
\* page after the first
SourcesShownWithPages ==
    /\ response # NoResponse
    /\ \E i \in 1..Len(response.source_documents) :
          /\ response.source_documents[i].metadata.page > 1
          /\ <<"source", ToString(response.source_documents[i].metadata.page)>>
                \in Range(out)

\* C11: in a web session every turn of the history has a role, user or
\* assistant, and a content; the assistant turns, and only they, have the
\* list of sources, the chunks returned with the answer; so the page never
\* shows the KeyError of a turn drawn without sources
TurnsWellFormed ==
    entry = "web" =>
        /\ \A i \in 1..Len(History) :
              /\ {"role", "content"} \subseteq DOMAIN History[i]
              /\ History[i].role \in {"user", "assistant"}
              /\ ("sources" \in DOMAIN History[i]) = (History[i].role = "assistant")
              /\ History[i].role = "assistant" =>
                    /\ DOMAIN History[i].sources = 1..Len(History[i].sources)
                    /\ Len(History[i].sources) <= TOP_K_CHUNKS
              /\ Error("KeyError") \notin Range(RenderMessage(History[i]))
        /\ Error("KeyError") \notin Range(out)

\* the history with an answer in it has been drawn, sources included
AnswerDrawn ==
    /\ entry = "web"
    /\ pc = "w_input"
    /\ \E i \in 1..Len(History) :
          /\ History[i].role = "assistant"
          /\ History[i].sources # <<>>
    /\ Info("assistant") \in Range(out)
    /\ \E e \in Range(out) : e[1] = "source"

LoopPcs == {"c_read", "c_ask", "c_loop_except"}
\* the step reads a line that is an exit command once trimmed and lower-cased
ReadsExitCommand ==
    pc = "c_read" /\ exc' = "none" /\ lower(question') \in ExitCommands
Interrupted == exc' = "KeyboardInterrupt"
EndsWith(s, t) == Len(t) <= Len(s) /\ SubSeq(s, Len(s) - Len(t) + 1, Len(s)) = t

\* C12: a step of the console chat loop leaves the loop exactly when it reads
\* an exit command or a keyboard interrupt occurs, and then the farewell and
\* the total are printed; any other exception raised while reading or
\* answering is printed and the loop is back at the prompt; a blank line
\* goes back to the prompt without a call of the chain, which is called only
\* with a line that is neither blank nor an exit command
ChatLoopEndsOnExitOrInterrupt ==
    [][(entry = "chat" /\ pc \in LoopPcs) =>
         /\ (pc' \notin LoopPcs) = (ReadsExitCommand \/ Interrupted)
         /\ pc' \notin LoopPcs =>
               /\ pc' = "off"
               /\ status' = "exit0"
               /\ EndsWith(out', Farewell)
         /\ (pc # "c_loop_except" /\ exc' \notin {"none", "KeyboardInterrupt"}) =>
               pc' = "c_loop_except"
         /\ pc = "c_loop_except" =>
               /\ pc' = "c_read"
               /\ out' = Append(out, Error(exc))
         /\ (pc = "c_read" /\ exc' = "none" /\ question' = <<>>) =>
               /\ pc' = "c_read"
               /\ calls' = calls
               /\ asked' = asked
         /\ calls' # calls =>
               /\ pc = "c_ask"
               /\ question # <<>>
               /\ lower(question) \notin ExitCommands
               /\ calls' = Append(calls, question)]_vars

\* the loop went on after a call of the chain failed, and ended on an exit
\* command typed with a capital letter
LoopSurvivedErrorThenExit ==
    /\ entry = "chat"
    /\ pc = "off"
    /\ status = "exit0"
    /\ exc = "none"
    /\ conversation_count < Len(calls)
    /\ question \notin ExitCommands
    /\ lower(question) \in ExitCommands

Turns(r) == {i \in 1..Len(History) : History[i].role = r}

\* C13: in a web session every assistant turn of the history comes right
\* after a user turn, and is the answer to that turn's question with the
\* sources of that answer, so the assistant turns are never more than the
\* user turns; during the run in which a call of the chain fails, the
\* history ends with the user turn of the failed question
AnswersFollowQuestions ==
    entry = "web" =>
        /\ \A i \in Turns("assistant") :
              /\ i > 1
              /\ History[i - 1].role = "user"
              /\ History[i].content.question = History[i - 1].content
              /\ History[i].content = Prompt(History[i].sources, History[i - 1].content)
        /\ Cardinality(Turns("assistant")) <= Cardinality(Turns("user"))
        /\ (HasChain /\ exc = "network") =>
              /\ calls # <<>>
              /\ History # <<>>
              /\ History[Len(History)] = UserTurn(calls[Len(calls)])

\* after an answered question, a second question failed: its user turn is
\* the last of the history
FailedQuestionLeftUnanswered ==
    /\ entry = "web"
    /\ pc = "w_idle"
    /\ HasChain
    /\ exc = "network"
    /\ Len(History) = 3
    /\ History[2].role = "assistant"
    /\ History[3].role = "user"

====
